---- MODULE Spec2Model ----
(***************************************************************************)
(* BookCollection of main.py: an in-memory list of book dicts mirrored to  *)
(* one JSON file.  Texts are sequences of characters, Python values are    *)
(* tagged records, and the storage file is a sequence of JSON tokens, so   *)
(* that json.dump and json.load are two different computations.            *)
(***************************************************************************)
EXTENDS Integers, Sequences, FiniteSets, TLC

\* Largest number of books an add_book call is explored up to.
MaxBooks == 3

\* Largest number of failing save_to_file calls explored in one run.
MaxIoFailures == 1

(***************************************************************************)
(* Text: str.lower() and the substring test `x in y`.                      *)
(***************************************************************************)
LowerChar(c) ==
    CASE c = "A" -> "a"
      [] c = "B" -> "b"
      [] OTHER -> c

lower(s) == [i \in 1..Len(s) |-> LowerChar(s[i])]

str_in(x, y) ==
    \E i \in 0..(Len(y) - Len(x)) : SubSeq(y, i + 1, i + Len(x)) = x

(***************************************************************************)
(* Python values.  A dict keeps its items in insertion order.              *)
(***************************************************************************)
PyNone == [tag |-> "NoneType", s |-> <<>>, b |-> FALSE, items |-> <<>>]

PyBool(b) == [tag |-> "bool", s |-> <<>>, b |-> b, items |-> <<>>]

PyStr(s) == [tag |-> "str", s |-> s, b |-> FALSE, items |-> <<>>]

PyList(items) == [tag |-> "list", s |-> <<>>, b |-> FALSE, items |-> items]

PyDict(items) == [tag |-> "dict", s |-> <<>>, b |-> FALSE, items |-> items]

Item(k, v) == [k |-> k, v |-> v]

K_title == <<"t", "i", "t", "l", "e">>

K_author == <<"a", "u", "t", "h", "o", "r">>

K_year == <<"y", "e", "a", "r">>

K_genre == <<"g", "e", "n", "r", "e">>

K_read == <<"r", "e", "a", "d">>

HasKey(d, key) == \E i \in 1..Len(d.items) : d.items[i].k = key

DictGet(d, key) == d.items[CHOOSE i \in 1..Len(d.items) : d.items[i].k = key].v

\* d[key] = v: an existing key keeps its position, a new one goes last.
DictSet(d, key, v) ==
    IF HasKey(d, key)
    THEN PyDict([i \in 1..Len(d.items) |->
                    IF d.items[i].k = key THEN Item(key, v) ELSE d.items[i]])
    ELSE PyDict(Append(d.items, Item(key, v)))

\* bool(v)
Truthy(v) ==
    CASE v.tag = "NoneType" -> FALSE
      [] v.tag = "bool" -> v.b
      [] v.tag = "str" -> Len(v.s) > 0
      [] OTHER -> Len(v.items) > 0

(***************************************************************************)
(* json.dump(obj, file, indent=4): the tokens written.                     *)
(***************************************************************************)
Tok(t) == [t |-> t, v |-> <<>>]

StrTok(raw) == [t |-> "str", v |-> raw]

\* newline and 4 * level spaces
Indent(level) == [t |-> "ws", v |-> <<"\n">> \o [i \in 1..(4 * level) |-> " "]]

Space == [t |-> "ws", v |-> <<" ">>]

RECURSIVE EscapeStr(_)
EscapeStr(s) ==
    IF s = <<>> THEN <<>>
    ELSE (IF Head(s) \in {"\"", "\\"} THEN <<"\\", Head(s)>> ELSE <<Head(s)>>)
         \o EscapeStr(Tail(s))

RECURSIVE json_dump_value(_, _)
RECURSIVE DumpElements(_, _, _)
RECURSIVE DumpMembers(_, _, _)

DumpElements(items, level, i) ==
    <<Indent(level)>> \o json_dump_value(items[i], level)
    \o (IF i < Len(items)
        THEN <<Tok(",")>> \o DumpElements(items, level, i + 1)
        ELSE <<>>)

DumpMembers(items, level, i) ==
    <<Indent(level), StrTok(EscapeStr(items[i].k)), Tok(":"), Space>>
    \o json_dump_value(items[i].v, level)
    \o (IF i < Len(items)
        THEN <<Tok(",")>> \o DumpMembers(items, level, i + 1)
        ELSE <<>>)

json_dump_value(v, level) ==
    CASE v.tag = "NoneType" -> <<Tok("null")>>
      [] v.tag = "bool" -> <<Tok(IF v.b THEN "true" ELSE "false")>>
      [] v.tag = "str" -> <<StrTok(EscapeStr(v.s))>>
      [] v.tag = "list" ->
            IF v.items = <<>> THEN <<Tok("["), Tok("]")>>
            ELSE <<Tok("[")>> \o DumpElements(v.items, level + 1, 1)
                 \o <<Indent(level), Tok("]")>>
      [] v.tag = "dict" ->
            IF v.items = <<>> THEN <<Tok("{"), Tok("}")>>
            ELSE <<Tok("{")>> \o DumpMembers(v.items, level + 1, 1)
                 \o <<Indent(level), Tok("}")>>

json_dump(obj) == json_dump_value(obj, 0)

(***************************************************************************)
(* json.load(file): a recursive-descent parse of the tokens.               *)
(***************************************************************************)
ParseErr == [ok |-> FALSE, val |-> PyNone, next |-> 0]

ParseOk(v, n) == [ok |-> TRUE, val |-> v, next |-> n]

RECURSIVE UnescapeStr(_)
UnescapeStr(raw) ==
    IF raw = <<>> THEN [ok |-> TRUE, s |-> <<>>]
    ELSE IF Head(raw) = "\""  THEN [ok |-> FALSE, s |-> <<>>]
    ELSE IF Head(raw) = "\\"
         THEN IF Len(raw) >= 2 /\ raw[2] \in {"\"", "\\"}
              THEN LET r == UnescapeStr(SubSeq(raw, 3, Len(raw)))
                   IN  [ok |-> r.ok, s |-> <<raw[2]>> \o r.s]
              ELSE [ok |-> FALSE, s |-> <<>>]
    ELSE LET r == UnescapeStr(Tail(raw))
         IN  [ok |-> r.ok, s |-> <<Head(raw)>> \o r.s]

RECURSIVE SkipWs(_, _)
SkipWs(toks, i) ==
    IF i <= Len(toks) /\ toks[i].t = "ws" THEN SkipWs(toks, i + 1) ELSE i

RECURSIVE ParseValue(_, _)
RECURSIVE ParseElements(_, _, _)
RECURSIVE ParseMembers(_, _, _)

ParseElements(toks, i, acc) ==
    LET r == ParseValue(toks, i)
        j == SkipWs(toks, r.next)
    IN  IF ~r.ok \/ j > Len(toks) THEN ParseErr
        ELSE IF toks[j].t = "," THEN ParseElements(toks, j + 1, Append(acc, r.val))
        ELSE IF toks[j].t = "]" THEN ParseOk(PyList(Append(acc, r.val)), j + 1)
        ELSE ParseErr

ParseMembers(toks, i, acc) ==
    LET k == SkipWs(toks, i)
        key == IF k <= Len(toks) /\ toks[k].t = "str"
               THEN UnescapeStr(toks[k].v)
               ELSE [ok |-> FALSE, s |-> <<>>]
        c == SkipWs(toks, k + 1)
        r == ParseValue(toks, c + 1)
        j == SkipWs(toks, r.next)
    IN  IF ~key.ok \/ c > Len(toks) THEN ParseErr
        ELSE IF toks[c].t # ":" THEN ParseErr
        ELSE IF ~r.ok \/ j > Len(toks) THEN ParseErr
        ELSE IF toks[j].t = "," THEN ParseMembers(toks, j + 1, DictSet(acc, key.s, r.val))
        ELSE IF toks[j].t = "}" THEN ParseOk(DictSet(acc, key.s, r.val), j + 1)
        ELSE ParseErr

ParseValue(toks, i) ==
    LET j == SkipWs(toks, i)
    IN  IF j > Len(toks) THEN ParseErr
        ELSE CASE toks[j].t = "null" -> ParseOk(PyNone, j + 1)
               [] toks[j].t = "true" -> ParseOk(PyBool(TRUE), j + 1)
               [] toks[j].t = "false" -> ParseOk(PyBool(FALSE), j + 1)
               [] toks[j].t = "str" ->
                     LET d == UnescapeStr(toks[j].v)
                     IN  IF d.ok THEN ParseOk(PyStr(d.s), j + 1) ELSE ParseErr
               [] toks[j].t = "[" ->
                     LET e == SkipWs(toks, j + 1)
                     IN  IF e <= Len(toks) /\ toks[e].t = "]"
                         THEN ParseOk(PyList(<<>>), e + 1)
                         ELSE ParseElements(toks, j + 1, <<>>)
               [] toks[j].t = "{" ->
                     LET e == SkipWs(toks, j + 1)
                     IN  IF e <= Len(toks) /\ toks[e].t = "}"
                         THEN ParseOk(PyDict(<<>>), e + 1)
                         ELSE ParseMembers(toks, j + 1, PyDict(<<>>))
               [] OTHER -> ParseErr

\* The whole document is one value; anything but whitespace after it is
\* "Extra data".
json_load(toks) ==
    LET r == ParseValue(toks, 1)
    IN  IF r.ok /\ SkipWs(toks, r.next) > Len(toks) THEN r ELSE ParseErr

(***************************************************************************)
(* The store: self.book_list, and the content of the file named by         *)
(* self.storage_file.  `last` records the latest call (its arguments, the  *)
(* exception it propagated, what it returned), `pre` the store as the call *)
(* found it, and io_failures counts the save_to_file calls that failed.    *)
(***************************************************************************)
VARIABLES book_list, storage_file, last, pre, io_failures

vars == <<book_list, storage_file, last, pre, io_failures>>

NoFile == [exists |-> FALSE, data |-> <<>>]

FileOf(toks) == [exists |-> TRUE, data |-> toks]

NoRate == [num |-> 0, den |-> 1]

\* `again`: the call repeats the call before it (same operation, same
\* arguments).
Call(op, args, exc, found, total, rate) ==
    [op |-> op, args |-> args, exc |-> exc, found |-> found,
     total |-> total, rate |-> rate,
     again |-> (last.op = op /\ last.args = args)]

Snapshot == [book_list |-> book_list, storage_file |-> storage_file]

\* new_book of add_book
NewBook(title, author, year, genre, read) ==
    PyDict(<<Item(K_title, title), Item(K_author, author), Item(K_year, year),
             Item(K_genre, genre), Item(K_read, read)>>)

\* Mutant: json.load's result is not assigned to self.book_list.
read_from_file_unassigned(f) == PyList(<<>>)

(***************************************************************************)
(* read_from_file: FileNotFoundError and json.JSONDecodeError are caught,  *)
(* whatever json.load returns is kept.                                     *)
(***************************************************************************)
read_from_file(f) ==
    IF ~f.exists THEN PyList(<<>>)
    ELSE LET r == json_load(f.data)
         IN  IF r.ok THEN r.val ELSE PyList(<<>>)

\* Mutant: the file is opened with mode "a".
save_to_file_append(obj, f, io) ==
    [exists |-> TRUE, data |-> f.data \o json_dump(obj)]

\* Mutant: the I/O failure is caught and dropped.
SaveExcSwallowed(io) == ""

(***************************************************************************)
(* save_to_file: open(..., "w") truncates the file, json.dump writes it.   *)
(* io = "ok": written whole.  "denied": open raises, the file is as it     *)
(* was.  "short": the write fails after the first `n` tokens (or, of a     *)
(* shorter document, before its last token).                               *)
(***************************************************************************)
IoOk == [kind |-> "ok", n |-> 0]

save_to_file(obj, f, io) ==
    CASE io.kind = "ok" -> FileOf(json_dump(obj))
      [] io.kind = "denied" -> f
      [] io.kind = "short" ->
            LET whole == json_dump(obj)
            IN  FileOf(SubSeq(whole, 1, IF io.n < Len(whole) THEN io.n ELSE Len(whole) - 1))

SaveExc(io) ==
    CASE io.kind = "ok" -> ""
      [] io.kind = "denied" -> "PermissionError"
      [] io.kind = "short" -> "OSError"

(***************************************************************************)
(* Iteration and subscripting as the comprehensions of delete_book,        *)
(* find_books and get_reading_progress meet them.                          *)
(***************************************************************************)
Iterable(v) == v.tag \in {"list", "dict", "str"}

\* iter(v): a list's items, a dict's keys, a str's characters
Iter(v) ==
    CASE v.tag = "list" -> v.items
      [] v.tag = "dict" -> [i \in 1..Len(v.items) |-> PyStr(v.items[i].k)]
      [] v.tag = "str" -> [i \in 1..Len(v.s) |-> PyStr(<<v.s[i]>>)]
      [] OTHER -> <<>>

\* book[key].lower(): the exception raised, or the lowered text
FieldLower(book, key) ==
    IF book.tag # "dict" THEN [exc |-> "TypeError", s |-> <<>>]
    ELSE IF ~HasKey(book, key) THEN [exc |-> "KeyError", s |-> <<>>]
    ELSE IF DictGet(book, key).tag # "str" THEN [exc |-> "AttributeError", s |-> <<>>]
    ELSE [exc |-> "", s |-> lower(DictGet(book, key).s)]

RECURSIVE DeleteCompExact(_, _, _, _)
\* Mutant: the titles are compared without .lower().
DeleteCompExact(books, i, title, acc) ==
    IF i > Len(books) THEN [exc |-> "", out |-> acc]
    ELSE IF books[i].tag # "dict" THEN [exc |-> "TypeError", out |-> <<>>]
    ELSE DeleteCompExact(books, i + 1, title,
                         IF DictGet(books[i], K_title).s # title
                         THEN Append(acc, books[i]) ELSE acc)

RECURSIVE DeleteCompFirstOnly(_, _, _, _)
\* Mutant: only the first matching record is removed.
DeleteCompFirstOnly(books, i, title, acc) ==
    IF i > Len(books) THEN [exc |-> "", out |-> acc]
    ELSE IF books[i].tag # "dict" THEN [exc |-> "TypeError", out |-> <<>>]
    ELSE IF lower(DictGet(books[i], K_title).s) = lower(title)
         THEN [exc |-> "", out |-> acc \o SubSeq(books, i + 1, Len(books))]
         ELSE DeleteCompFirstOnly(books, i + 1, title, Append(acc, books[i]))

RECURSIVE DeleteComp(_, _, _, _)
\* [book for book in books if book["title"].lower() != title.lower()]
DeleteComp(books, i, title, acc) ==
    IF i > Len(books) THEN [exc |-> "", out |-> acc]
    ELSE LET t == FieldLower(books[i], K_title)
         IN  IF t.exc # "" THEN [exc |-> t.exc, out |-> <<>>]
             ELSE DeleteComp(books, i + 1, title,
                             IF t.s # lower(title) THEN Append(acc, books[i]) ELSE acc)

RECURSIVE FindCompTitleOnly(_, _, _, _)
\* Mutant: the author is not searched.
FindCompTitleOnly(books, i, search_text, acc) ==
    IF i > Len(books) THEN [exc |-> "", out |-> acc]
    ELSE IF books[i].tag # "dict" THEN [exc |-> "TypeError", out |-> <<>>]
    ELSE FindCompTitleOnly(books, i + 1, search_text,
                           IF str_in(lower(search_text), lower(DictGet(books[i], K_title).s))
                           THEN Append(acc, books[i]) ELSE acc)

RECURSIVE FindComp(_, _, _, _)
\* [book for book in books if search_text.lower() in book["title"].lower()
\*                          or search_text.lower() in book["author"].lower()]
FindComp(books, i, search_text, acc) ==
    IF i > Len(books) THEN [exc |-> "", out |-> acc]
    ELSE LET t == FieldLower(books[i], K_title)
             a == FieldLower(books[i], K_author)
         IN  IF t.exc # "" THEN [exc |-> t.exc, out |-> <<>>]
             ELSE IF str_in(lower(search_text), t.s)
                  THEN FindComp(books, i + 1, search_text, Append(acc, books[i]))
             ELSE IF a.exc # "" THEN [exc |-> a.exc, out |-> <<>>]
             ELSE FindComp(books, i + 1, search_text,
                           IF str_in(lower(search_text), a.s)
                           THEN Append(acc, books[i]) ELSE acc)

RECURSIVE SumRead(_, _, _)
\* sum(1 for book in books if book["read"])
SumRead(books, i, acc) ==
    IF i > Len(books) THEN [exc |-> "", n |-> acc]
    ELSE IF books[i].tag # "dict" THEN [exc |-> "TypeError", n |-> 0]
    ELSE IF ~HasKey(books[i], K_read) THEN [exc |-> "KeyError", n |-> 0]
    ELSE SumRead(books, i + 1,
                 IF Truthy(DictGet(books[i], K_read)) THEN acc + 1 ELSE acc)

\* Mutant: no guard against total_books = 0.
CompletionRateUnguarded(completed_books, total_books) ==
    [num |-> completed_books * 100, den |-> total_books]

\* (completed_books / total_books * 100) if total_books > 0 else 0, as an
\* exact fraction num / den
CompletionRate(completed_books, total_books) ==
    IF total_books > 0
    THEN [num |-> completed_books * 100, den |-> total_books]
    ELSE [num |-> 0, den |-> 1]

(***************************************************************************)
(* Inputs the caller draws from.                                           *)
(***************************************************************************)
Book1 == <<PyStr(<<"a", "B">>), PyStr(<<"b">>), PyStr(<<"1">>), PyStr(<<>>), PyBool(FALSE)>>

Book2 == <<PyStr(<<"A", "b">>), PyStr(<<>>), PyStr(<<>>), PyStr(<<"g">>), PyBool(TRUE)>>

Book3 == <<PyStr(<<>>), PyStr(<<"A", "b">>), PyStr(<<"1">>), PyStr(<<"\\">>), PyBool(FALSE)>>

Book4 == <<PyStr(<<"b">>), PyStr(<<"a", "\"">>), PyStr(<<>>), PyStr(<<>>), PyBool(TRUE)>>

Inputs == {Book1, Book2, Book3, Book4}

DeleteTitles == {<<"a", "b">>, <<"B">>, <<>>, <<"a">>}

SearchTexts == {<<>>, <<"A", "b">>, <<"A", "\"">>, <<"c">>}

Compact(toks) == SelectSeq(toks, LAMBDA t : t.t # "ws")

BookOf(in) == NewBook(in[1], in[2], in[3], in[4], in[5])

\* What books_data.json may hold when the store is first constructed: no
\* file, an empty file, truncated JSON, an array written without
\* indentation, and JSON documents that are not arrays.
InitFiles ==
    { NoFile,
      FileOf(<<>>),
      FileOf(SubSeq(json_dump(PyList(<<BookOf(Book1)>>)), 1, 7)),
      FileOf(Compact(json_dump(PyList(<<BookOf(Book2), BookOf(Book4)>>)))),
      FileOf(<<Tok("null")>>),
      FileOf(<<Tok("{"), Tok("}"), Indent(0)>>) }

\* I/O failures of save_to_file
IoFailures ==
    { [kind |-> "denied", n |-> 0], [kind |-> "short", n |-> 1],
      [kind |-> "short", n |-> 9] }

(***************************************************************************)
(* The operations.                                                         *)
(***************************************************************************)
Init ==
    /\ storage_file \in InitFiles
    /\ book_list = read_from_file(storage_file)
    /\ last = [op |-> "__init__", args |-> <<>>, exc |-> "", found |-> <<>>,
               total |-> 0, rate |-> NoRate, again |-> FALSE]
    /\ pre = [book_list |-> PyList(<<>>), storage_file |-> storage_file]
    /\ io_failures = 0

\* book_manager = BookCollection(): a new store on the same file
BookCollection ==
    /\ book_list' = read_from_file(storage_file)
    /\ last' = Call("__init__", <<>>, "", <<>>, 0, NoRate)
    /\ pre' = Snapshot
    /\ UNCHANGED <<storage_file, io_failures>>

\* Mutant: self.book_list.insert(0, new_book)
Prepended(books, new_book) == PyList(<<new_book>> \o books.items)

\* self.book_list.append(new_book)
Appended(books, new_book) == PyList(Append(books.items, new_book))

add_book(title, author, year, genre, read, io) ==
    LET new_book == NewBook(title, author, year, genre, read)
    IN  /\ book_list.tag = "list" => Len(book_list.items) < MaxBooks
        /\ io.kind # "ok" => io_failures < MaxIoFailures
        /\ pre' = Snapshot
        /\ IF book_list.tag # "list"
           THEN /\ last' = Call("add_book", <<title, author, year, genre, read>>,
                                "AttributeError", <<>>, 0, NoRate)
                /\ UNCHANGED <<book_list, storage_file, io_failures>>
           ELSE /\ book_list' = Appended(book_list, new_book)
                /\ storage_file' = save_to_file(book_list', storage_file, io)
                /\ io_failures' = io_failures + (IF io.kind = "ok" THEN 0 ELSE 1)
                /\ last' = Call("add_book", <<title, author, year, genre, read>>,
                                SaveExc(io), <<>>, 0, NoRate)

\* Mutant: save_to_file is skipped when nothing was removed.
delete_book_lazy(title, io) ==
    LET kept == DeleteComp(Iter(book_list), 1, title, <<>>)
        exc  == IF ~Iterable(book_list) THEN "TypeError" ELSE kept.exc
        same == kept.out = book_list.items
    IN  /\ io.kind # "ok" => io_failures < MaxIoFailures
        /\ pre' = Snapshot
        /\ IF exc # ""
           THEN /\ last' = Call("delete_book", <<PyStr(title)>>, exc, <<>>, 0, NoRate)
                /\ UNCHANGED <<book_list, storage_file, io_failures>>
           ELSE /\ book_list' = PyList(kept.out)
                /\ storage_file' = IF same THEN storage_file
                                   ELSE save_to_file(book_list', storage_file, io)
                /\ io_failures' = io_failures + (IF io.kind = "ok" THEN 0 ELSE 1)
                /\ last' = Call("delete_book", <<PyStr(title)>>, SaveExc(io), <<>>, 0,
                                NoRate)

delete_book(title, io) ==
    LET kept == DeleteComp(Iter(book_list), 1, title, <<>>)
        exc  == IF ~Iterable(book_list) THEN "TypeError" ELSE kept.exc
    IN  /\ io.kind # "ok" => io_failures < MaxIoFailures
        /\ pre' = Snapshot
        /\ IF exc # ""
           THEN /\ last' = Call("delete_book", <<PyStr(title)>>, exc, <<>>, 0, NoRate)
                /\ UNCHANGED <<book_list, storage_file, io_failures>>
           ELSE /\ book_list' = PyList(kept.out)
                /\ storage_file' = save_to_file(book_list', storage_file, io)
                /\ io_failures' = io_failures + (IF io.kind = "ok" THEN 0 ELSE 1)
                /\ last' = Call("delete_book", <<PyStr(title)>>, SaveExc(io), <<>>, 0,
                                NoRate)

find_books(search_text) ==
    LET found == FindComp(Iter(book_list), 1, search_text, <<>>)
        exc   == IF ~Iterable(book_list) THEN "TypeError" ELSE found.exc
    IN  /\ pre' = Snapshot
        /\ last' = Call("find_books", <<PyStr(search_text)>>, exc, found.out, 0, NoRate)
        /\ UNCHANGED <<book_list, storage_file, io_failures>>

get_books ==
    /\ pre' = Snapshot
    /\ last' = Call("get_books", <<>>, "", book_list.items, 0, NoRate)
    /\ UNCHANGED <<book_list, storage_file, io_failures>>

get_reading_progress ==
    LET total_books == IF book_list.tag = "str" THEN Len(book_list.s)
                       ELSE Len(book_list.items)
        completed   == SumRead(Iter(book_list), 1, 0)
        exc         == IF ~Iterable(book_list) THEN "TypeError" ELSE completed.exc
    IN  /\ pre' = Snapshot
        /\ last' = IF exc # ""
                   THEN Call("get_reading_progress", <<>>, exc, <<>>, 0, NoRate)
                   ELSE Call("get_reading_progress", <<>>, "", <<>>, total_books,
                             CompletionRate(completed.n, total_books))
        /\ UNCHANGED <<book_list, storage_file, io_failures>>

Reads ==
    \/ \E search_text \in SearchTexts : find_books(search_text)
    \/ get_books
    \/ get_reading_progress
    \/ BookCollection

\* Every save_to_file succeeds.
Next ==
    \/ \E in \in Inputs : add_book(in[1], in[2], in[3], in[4], in[5], IoOk)
    \/ \E title \in DeleteTitles : delete_book(title, IoOk)
    \/ Reads

Spec == Init /\ [][Next]_vars

\* save_to_file may fail; the caller then looks at the store (get_books)
\* or constructs it anew.
NextIO ==
    \/ \E in \in {Book1, Book2}, io \in {IoOk} \cup IoFailures :
          add_book(in[1], in[2], in[3], in[4], in[5], io)
    \/ \E title \in DeleteTitles, io \in {IoOk} \cup IoFailures : delete_book(title, io)
    \/ get_books
    \/ BookCollection

SpecIO == Init /\ [][NextIO]_vars

(***************************************************************************)
(* Vocabulary of the properties, defined without lower(), str_in() or the  *)
(* comprehensions above.                                                   *)
(***************************************************************************)
CasePairs == {{"a", "A"}, {"b", "B"}}

SameLetter(c, d) == c = d \/ {c, d} \in CasePairs

\* s and t are equal ignoring letter case
SameIgnoringCase(s, t) ==
    Len(s) = Len(t) /\ \A i \in 1..Len(s) : SameLetter(s[i], t[i])

\* x occurs in y ignoring letter case
OccursIgnoringCase(x, y) ==
    \E k \in 0..(Len(y) - Len(x)) : \A i \in 1..Len(x) : SameLetter(x[i], y[k + i])

TitleOf(book) == DictGet(book, K_title).s

AuthorOf(book) == DictGet(book, K_author).s

\* The in-memory value is a collection: a sequence of records.
IsCollection(v) == v.tag = "list"

Mutators == {"add_book", "delete_book"}

IoExcs == {"PermissionError", "OSError"}

\* The records of `books` whose title is not `title` ignoring case, in order.
Others(books, title) ==
    SelectSeq(books, LAMBDA book : ~SameIgnoringCase(TitleOf(book), title))

\* The record add_book is to build from the arguments of the latest call.
IsRecordOf(book, args) ==
    /\ book.tag = "dict"
    /\ Len(book.items) = 5
    /\ HasKey(book, K_title) /\ DictGet(book, K_title) = args[1]
    /\ HasKey(book, K_author) /\ DictGet(book, K_author) = args[2]
    /\ HasKey(book, K_year) /\ DictGet(book, K_year) = args[3]
    /\ HasKey(book, K_genre) /\ DictGet(book, K_genre) = args[4]
    /\ HasKey(book, K_read) /\ DictGet(book, K_read) = args[5]

\* v is a book record: the five keys, four texts and a boolean
IsBookRecord(v) ==
    /\ v.tag = "dict"
    /\ Len(v.items) = 5
    /\ \A key \in {K_title, K_author, K_year, K_genre} :
          HasKey(v, key) /\ DictGet(v, key).tag = "str"
    /\ HasKey(v, K_read) /\ DictGet(v, K_read).tag = "bool"

\* The content of f parses as a sequence of book records.
ParsesAsBooks(f) ==
    /\ f.exists
    /\ json_load(f.data).ok
    /\ json_load(f.data).val.tag = "list"
    /\ \A i \in 1..Len(json_load(f.data).val.items) :
          IsBookRecord(json_load(f.data).val.items[i])

IsProperPrefix(a, b) == Len(a) < Len(b) /\ a = SubSeq(b, 1, Len(a))

(***************************************************************************)
(* C1.  After every add_book or delete_book call that returns normally,    *)
(* whatever file the store started from, the storage file holds exactly    *)
(* the serialization of the in-memory collection.                          *)
(***************************************************************************)
C1_FileMirrorsMemory ==
    (last.op \in Mutators /\ last.exc = "")
        => storage_file = FileOf(json_dump(book_list))

\* A delete that removed some but not all records has returned.
C1_Witness ==
    /\ last.op = "delete_book" /\ last.exc = ""
    /\ Len(book_list.items) >= 1
    /\ Len(pre.book_list.items) > Len(book_list.items)
    /\ storage_file # pre.storage_file

(***************************************************************************)
(* C2.  Round trip: a store constructed on the same file right after a     *)
(* successful add_book loads a collection equal, record for record and in  *)
(* the same order, to the collection the first store held.                 *)
(***************************************************************************)
C2_RoundTrip ==
    [][(last.op = "add_book" /\ last.exc = "" /\ last'.op = "__init__")
          => book_list' = book_list]_vars

\* A store was constructed on a file holding three records, one of them
\* with a quotation mark and one with a backslash in a field, and loaded
\* what the previous store held.
C2_Witness ==
    /\ last.op = "__init__"
    /\ IsCollection(book_list) /\ Len(book_list.items) = 3
    /\ pre.book_list = book_list
    /\ storage_file = FileOf(json_dump(book_list))
    /\ \E i \in 1..3 : AuthorOf(book_list.items[i]) = <<"a", "\"">>
    /\ \E i \in 1..3 : DictGet(book_list.items[i], K_genre).s = <<"\\">>

(***************************************************************************)
(* C3.  delete_book(title) on a collection leaves exactly the records      *)
(* whose title differs from `title` ignoring letter case, in their         *)
(* original order: every duplicate goes, nothing else does.                *)
(***************************************************************************)
C3_DeleteRemovesAllMatches ==
    (last.op = "delete_book" /\ IsCollection(pre.book_list))
        => /\ last.exc = ""
           /\ book_list = PyList(Others(pre.book_list.items, last.args[1].s))

\* Two records whose titles differ in case from each other and from the
\* argument were removed, and another record was kept.
C3_Witness ==
    /\ last.op = "delete_book" /\ last.exc = ""
    /\ IsCollection(pre.book_list)
    /\ Len(pre.book_list.items) = Len(book_list.items) + 2
    /\ Len(book_list.items) >= 1
    /\ \E i, j \in 1..Len(pre.book_list.items) :
          /\ TitleOf(pre.book_list.items[i]) = <<"a", "B">>
          /\ TitleOf(pre.book_list.items[j]) = <<"A", "b">>
    /\ last.args[1].s = <<"a", "b">>

(***************************************************************************)
(* C4.  add_book on a collection appends one record built from its five    *)
(* arguments, whatever they are (a title already present, an empty title   *)
(* or author), and leaves the records before it as they were; get_books    *)
(* returns the records in that order.                                      *)
(***************************************************************************)
C4_AddAppends ==
    /\ (last.op = "add_book" /\ IsCollection(pre.book_list))
          => /\ last.exc = ""
             /\ IsCollection(book_list)
             /\ Len(book_list.items) = Len(pre.book_list.items) + 1
             /\ SubSeq(book_list.items, 1, Len(pre.book_list.items))
                   = pre.book_list.items
             /\ IsRecordOf(book_list.items[Len(book_list.items)], last.args)
    /\ last.op = "get_books" => last.found = book_list.items

\* A record with an empty title was added to a collection that already
\* held two records with that title.
C4_Witness ==
    /\ last.op = "add_book" /\ last.exc = ""
    /\ Len(book_list.items) = 3
    /\ \A i \in 1..3 : TitleOf(book_list.items[i]) = <<>>

(***************************************************************************)
(* C5.  Constructing the store on a missing file, or on content that does  *)
(* not parse as a sequence of book records, completes with the empty       *)
(* collection in memory.                                                   *)
(***************************************************************************)
C5_LoadRecovers ==
    (last.op = "__init__" /\ ~ParsesAsBooks(storage_file))
        => last.exc = "" /\ book_list = PyList(<<>>)

(***************************************************************************)
(* C6 as stated, for a store holding a collection: a delete_book whose     *)
(* title matches no record raises nothing, leaves the collection as it was *)
(* and leaves the storage file with the content it had before the call.    *)
(***************************************************************************)
NoMatch(books, title) == Others(books, title) = books

C6_FileUntouched ==
    (/\ last.op = "delete_book"
     /\ IsCollection(pre.book_list)
     /\ NoMatch(pre.book_list.items, last.args[1].s))
        => /\ last.exc = ""
           /\ book_list = pre.book_list
           /\ storage_file = pre.storage_file

(***************************************************************************)
(* C6 amended.  A delete_book whose title matches no record of the         *)
(* collection raises nothing, leaves the collection as it was and writes   *)
(* the file anew as the serialization of that collection: the content is   *)
(* what it was before exactly when the file already held that              *)
(* serialization.  When the store holds no collection (json.load returned  *)
(* something that is not a list), the call either raises and changes       *)
(* nothing, or finds an empty container, replaces it by the empty list and *)
(* writes that.                                                            *)
(***************************************************************************)
C6_FileRewritten ==
    last.op = "delete_book"
       => /\ (IsCollection(pre.book_list)
                 /\ NoMatch(pre.book_list.items, last.args[1].s))
                => /\ last.exc = ""
                   /\ book_list = pre.book_list
                   /\ storage_file = FileOf(json_dump(pre.book_list))
          /\ ~IsCollection(pre.book_list)
                => \/ /\ last.exc \in {"TypeError", "KeyError", "AttributeError"}
                      /\ book_list = pre.book_list
                      /\ storage_file = pre.storage_file
                   \/ /\ last.exc = ""
                      /\ Iter(pre.book_list) = <<>>
                      /\ book_list = PyList(<<>>)
                      /\ storage_file = FileOf(<<Tok("["), Tok("]")>>)

\* A delete on a store just constructed from a missing file: nothing
\* matched, and the file now exists.
C6_Witness ==
    /\ last.op = "delete_book" /\ last.exc = ""
    /\ pre.book_list = PyList(<<>>)
    /\ book_list = PyList(<<>>)
    /\ pre.storage_file = NoFile
    /\ storage_file = FileOf(<<Tok("["), Tok("]")>>)

(***************************************************************************)
(* C7.  find_books(search_text) on a collection returns, in collection     *)
(* order, exactly the records in whose title or author search_text occurs  *)
(* ignoring letter case (none: the empty sequence), and changes neither    *)
(* the collection nor the file.                                            *)
(***************************************************************************)
Found(books, search_text) ==
    SelectSeq(books, LAMBDA book :
        \/ OccursIgnoringCase(search_text, TitleOf(book))
        \/ OccursIgnoringCase(search_text, AuthorOf(book)))

C7_FindMatches ==
    (last.op = "find_books" /\ IsCollection(pre.book_list))
        => /\ last.exc = ""
           /\ last.found = Found(book_list.items, last.args[1].s)
           /\ book_list = pre.book_list
           /\ storage_file = pre.storage_file

\* Of three records, the search returned the one it matches by author only
\* and then the one it matches by title only, and not the third.
C7_Witness ==
    /\ last.op = "find_books" /\ last.exc = ""
    /\ Len(book_list.items) = 3
    /\ Len(last.found) = 2
    /\ ~OccursIgnoringCase(last.args[1].s, TitleOf(last.found[1]))
    /\ ~OccursIgnoringCase(last.args[1].s, AuthorOf(last.found[2]))

(***************************************************************************)
(* C8.  delete_book(t) called again right after delete_book(t) changes     *)
(* neither the in-memory collection nor the file content.                  *)
(***************************************************************************)
C8_DeleteIdempotent ==
    (last.op = "delete_book" /\ last.again)
        => book_list = pre.book_list /\ storage_file = pre.storage_file

\* The second of two equal delete_book calls has returned, on a store that
\* still holds records.
C8_Witness ==
    /\ last.op = "delete_book" /\ last.again /\ last.exc = ""
    /\ Len(book_list.items) >= 2

(***************************************************************************)
(* C9.  get_reading_progress on a collection returns the number of records *)
(* and the rate 100 * (records with read = true) / (number of records),    *)
(* or 0 for the empty collection; the rate lies in 0..100; the collection  *)
(* and the file stay as they were.                                         *)
(***************************************************************************)
ReadCount(books) ==
    Cardinality({i \in 1..Len(books) : DictGet(books[i], K_read) = PyBool(TRUE)})

C9_Progress ==
    (last.op = "get_reading_progress" /\ IsCollection(pre.book_list))
        => /\ last.exc = ""
           /\ last.total = Len(book_list.items)
           /\ last.rate.den > 0
           /\ last.total > 0 =>
                 last.rate.num * last.total
                    = 100 * ReadCount(book_list.items) * last.rate.den
           /\ last.total = 0 => last.rate.num = 0
           /\ 0 <= last.rate.num /\ last.rate.num <= 100 * last.rate.den
           /\ book_list = pre.book_list
           /\ storage_file = pre.storage_file

\* Three records, one of them read: the rate is 100/3.
C9_Witness ==
    /\ last.op = "get_reading_progress"
    /\ last.total = 3
    /\ ReadCount(book_list.items) = 1
    /\ last.rate = [num |-> 100, den |-> 3]

(***************************************************************************)
(* C10 as stated: after an add_book or delete_book call, failed or not,    *)
(* the store is never left with the mutation in memory and not in the      *)
(* file.                                                                   *)
(***************************************************************************)
C10_NeverDiverged ==
    (last.op \in Mutators /\ book_list # pre.book_list)
        => storage_file = FileOf(json_dump(book_list))

(***************************************************************************)
(* C10 amended.  After a call whose save succeeded the file is the         *)
(* serialization of the collection.  After a call whose save failed, the   *)
(* collection in memory is the mutated one all the same, and the file      *)
(* holds what it held before (open failed) or a proper prefix of the new   *)
(* serialization (the write failed).                                       *)
(***************************************************************************)
Mutated ==
    IF last.op = "add_book"
    THEN /\ Len(book_list.items) = Len(pre.book_list.items) + 1
         /\ SubSeq(book_list.items, 1, Len(pre.book_list.items)) = pre.book_list.items
         /\ IsRecordOf(book_list.items[Len(book_list.items)], last.args)
    ELSE book_list.items = Others(Iter(pre.book_list), last.args[1].s)

C10_DivergesOnlyOnFailedSave ==
    last.op \in Mutators
       => /\ last.exc = "" => storage_file = FileOf(json_dump(book_list))
          /\ last.exc \in IoExcs
                => /\ IsCollection(book_list) /\ Mutated
                   /\ \/ storage_file = pre.storage_file
                      \/ /\ storage_file.exists
                         /\ IsProperPrefix(storage_file.data, json_dump(book_list))

\* add_book failed to open the file: the new record is in memory, the file
\* is the old one.
C10_Witness ==
    /\ last.op = "add_book" /\ last.exc = "PermissionError"
    /\ Len(book_list.items) = Len(pre.book_list.items) + 1
    /\ storage_file = pre.storage_file
    /\ storage_file # FileOf(json_dump(book_list))

====
